---- MODULE Spec2Model ----
(***************************************************************************)
(* A model of src/src/httpresponse.rs: HttpResponse (new, default,         *)
(* send_response, headers, body) and String::from(HttpResponse).           *)
(*                                                                         *)
(* A Rust &str / String is its UTF-8 byte sequence.  It is modelled as a   *)
(* sequence of bytes, each byte a token: an ASCII byte is the one-character*)
(* string of that character, a byte of a multi-byte character is a token   *)
(* such as "xC3".  String::len is the length of that sequence.             *)
(***************************************************************************)
EXTENDS Integers, Sequences, FiniteSets, TLC

VARIABLES
    origin,          \* "none" | "new" | "default": how `response` was made
    args,            \* the arguments given to new (history of the call)
    response,        \* the HttpResponse value the caller holds
    ret,             \* what the last accessor call (String::from, body) returned
    sink,            \* the bytes the caller's Write sink has accepted so far
    pc,              \* "idle" | "write_all": where send_response stands
    before,          \* the sink's content when the running/last send_response began
    buf,             \* write_all's remaining slice of response_string
    result,          \* what the last send_response returned
    sink_err,        \* the last Err the sink's write returned in this call ("-" if none)
    wrote_after_err, \* whether write was called again after the sink returned an Err
    last_write,      \* what the latest write of this call returned: "-" | "Ok" | "Zero" | an error kind
    sends            \* number of send_response calls made

vars == <<origin, args, response, ret, sink, pc, before, buf, result,
          sink_err, wrote_after_err, last_write, sends>>

----------------------------------------------------------------------------
(* Bounds of the model. *)

\* send_response is called at most MaxSends times on the response.
MaxSends == 2
\* The sink accepts the whole slice it is given, or at most MaxChunk bytes of it.
MaxChunk == 32

----------------------------------------------------------------------------
(* Strings and options. *)

RECURSIVE Bytes(_)
\* The byte sequence of an ASCII string literal.
Bytes(s) == IF Len(s) = 0 THEN <<>>
            ELSE <<SubSeq(s, 1, 1)>> \o Bytes(SubSeq(s, 2, Len(s)))

None == [some |-> FALSE, val |-> <<>>]
Some(v) == [some |-> TRUE, val |-> v]

CRLF == Bytes("\r\n")

----------------------------------------------------------------------------
(* The pure functions of the source. *)

\* impl Default for HttpResponse
default == [version |-> Bytes("HTTP/1.1"),
            status_code |-> Bytes("200"),
            status_text |-> Bytes("OK"),
            headers |-> None,
            body |-> None]

\* A match on the code with surrounding spaces ignored (status_code.trim()).
StatusTextTrimmed(status_code) ==
    LET t == SelectSeq(status_code, LAMBDA b : b # " ")
    IN CASE t = Bytes("200") -> Bytes("OK")
         [] t = Bytes("400") -> Bytes("Bad Request")
         [] t = Bytes("404") -> Bytes("Not Found")
         [] t = Bytes("500") -> Bytes("Internal Server Error")
         [] OTHER -> Bytes("Not Found")

\* The match on status_code in new: exact string match, with a default arm.
StatusTextFor(status_code) ==
    CASE status_code = Bytes("200") -> Bytes("OK")
      [] status_code = Bytes("400") -> Bytes("Bad Request")
      [] status_code = Bytes("404") -> Bytes("Not Found")
      [] status_code = Bytes("500") -> Bytes("Internal Server Error")
      [] OTHER -> Bytes("Not Found")

\* A constructor that adds the default Content-Type to a supplied map lacking it.
HeadersMerged(hdrs) ==
    LET dflt == <<Bytes("Content-Type"), Bytes("text/html")>>
    IN IF ~hdrs.some THEN Some(<<dflt>>)
       ELSE IF \E i \in 1..Len(hdrs.val) : hdrs.val[i][1] = dflt[1] THEN hdrs
       ELSE Some(<<dflt>> \o hdrs.val)

\* The match on &headers in new.  A HashMap is the sequence of its entries
\* <<name, value>> in the order its iterator yields them (distinct names).
HeadersFor(hdrs) ==
    IF hdrs.some THEN hdrs
    ELSE Some(<< <<Bytes("Content-Type"), Bytes("text/html")>> >>)

\* HttpResponse::new
new(status_code, hdrs, b) ==
    [default EXCEPT !.status_code = status_code,
                    !.headers = HeadersFor(hdrs),
                    !.status_text = StatusTextFor(status_code),
                    !.body = b]

version(res) == res.version
status_code(res) == res.status_code
status_text(res) == res.status_text

\* A header line written without the space after the colon.
HeaderLineNoSpace(header_string, k, v) ==
    header_string \o k \o Bytes(":") \o v \o Bytes("\r\n")

\* One iteration of the loop in headers():
\* header_string = format!("{}{}: {}\r\n", header_string, k, v)
HeaderLine(header_string, k, v) ==
    header_string \o k \o Bytes(": ") \o v \o CRLF

RECURSIVE HeadersLoop(_, _)
\* for (k, v) in map.iter() { ... }
HeadersLoop(header_string, entries) ==
    IF entries = <<>> THEN header_string
    ELSE HeadersLoop(HeaderLine(header_string, Head(entries)[1], Head(entries)[2]),
                     Tail(entries))

\* A headers() that ends the header block itself with a blank line.
headersBlankTerminated(res) ==
    (IF res.headers.some THEN HeadersLoop(<<>>, res.headers.val) ELSE <<>>)
    \o Bytes("\r\n")

\* HttpResponse::headers
headers(res) ==
    IF res.headers.some THEN HeadersLoop(<<>>, res.headers.val) ELSE <<>>

\* HttpResponse::body
body(res) == IF res.body.some THEN res.body.val ELSE <<>>

\* A body length counted in characters (b.chars().count()): the bytes that
\* do not continue a multi-byte character.
BodyLengthChars(res) ==
    IF res.body.some
    THEN Len(SelectSeq(res.body.val, LAMBDA b : b # "xA9"))
    ELSE 0

\* body_length in String::from: b.len() is the byte length; 0 for None.
BodyLength(res) == IF res.body.some THEN Len(res.body.val) ELSE 0

\* A formatter that prints the last decimal digit only.
DisplayLastDigit(n) ==
    Bytes(SubSeq("0123456789", (n % 10) + 1, (n % 10) + 1))

RECURSIVE Display(_)
\* How format! prints a usize with {}: its decimal digits, no padding.
Display(n) ==
    IF n < 10 THEN Bytes(SubSeq("0123456789", n + 1, n + 1))
    ELSE Display(n \div 10) \o Bytes(SubSeq("0123456789", (n % 10) + 1, (n % 10) + 1))

\* impl From<HttpResponse> for String
from(res) ==
    version(res) \o Bytes(" ") \o status_code(res) \o Bytes(" ") \o status_text(res)
    \o CRLF \o headers(res)
    \o Bytes("Content-Length: ") \o Display(BodyLength(res)) \o CRLF \o CRLF
    \o body(res)

----------------------------------------------------------------------------
(* The inputs the caller may give. *)

StatusCodes ==
    {Bytes("200"), Bytes("400"), Bytes("404"), Bytes("500"),
     Bytes("999"), Bytes(""), Bytes("200 "), Bytes("4\r\n\r\n4")}

CT_JSON == <<Bytes("Content-Type"), Bytes("application/json")>>
CC_NOCACHE == <<Bytes("Cache-Control"), Bytes("no-cache")>>

HeaderMaps ==
    {None,
     Some(<<>>),
     Some(<<CT_JSON, CC_NOCACHE>>),
     Some(<<CC_NOCACHE, CT_JSON>>),
     Some(<< <<Bytes("Content-Type"), Bytes("text/html")>> >>),
     Some(<< <<Bytes("Content-Length"), Bytes("5")>> >>),
     Some(<< <<Bytes("X-A"), Bytes("b\r\n\r\nc")>> >>)}

Bodies ==
    {None,
     Some(<<>>),
     Some(Bytes("hello")),
     Some(Bytes("{\"ok\":true}")),
     Some(<<"h", "xC3", "xA9">>),
     Some(Bytes("a\r\n\r\nb"))}

\* The kinds of io::Error the sink's write may return.
ErrorKinds == {"Interrupted", "BrokenPipe"}

NoResult == [state |-> "none", error |-> "-"]
Pending == [state |-> "pending", error |-> "-"]
Ok == [state |-> "Ok", error |-> "-"]
Err(kind) == [state |-> "Err", error |-> kind]

----------------------------------------------------------------------------
(* The state machine. *)

Init ==
    /\ origin = "none"
    /\ args = [status_code |-> <<>>, headers |-> None, body |-> None]
    /\ response = default
    /\ ret = [fn |-> "none", val |-> <<>>]
    /\ sink = <<>>
    /\ pc = "idle"
    /\ before = <<>>
    /\ buf = <<>>
    /\ result = NoResult
    /\ sink_err = "-"
    /\ wrote_after_err = FALSE
    /\ last_write = "-"
    /\ sends = 0

\* let response = HttpResponse::new(status_code, headers, body);
New ==
    /\ origin = "none"
    /\ \E c \in StatusCodes, h \in HeaderMaps, b \in Bodies :
        /\ args' = [status_code |-> c, headers |-> h, body |-> b]
        /\ response' = new(c, h, b)
    /\ origin' = "new"
    /\ UNCHANGED <<ret, sink, pc, before, buf, result, sink_err,
                   wrote_after_err, last_write, sends>>

\* let response = HttpResponse::default();
Default ==
    /\ origin = "none"
    /\ response' = default
    /\ origin' = "default"
    /\ UNCHANGED <<args, ret, sink, pc, before, buf, result, sink_err,
                   wrote_after_err, last_write, sends>>

\* let s: String = response.clone().into();
Into ==
    /\ origin # "none"
    /\ pc = "idle"
    /\ ret' = [fn |-> "from", val |-> from(response)]
    /\ UNCHANGED <<origin, args, response, sink, pc, before, buf, result,
                   sink_err, wrote_after_err, last_write, sends>>

\* let b = response.body();
BodyCall ==
    /\ origin # "none"
    /\ pc = "idle"
    /\ ret' = [fn |-> "body", val |-> body(response)]
    /\ UNCHANGED <<origin, args, response, sink, pc, before, buf, result,
                   sink_err, wrote_after_err, last_write, sends>>

\* A send that moves the body out of the response (self.body.take()).
ResponseBodyTaken(res) == [res EXCEPT !.body = [some |-> FALSE, val |-> <<>>]]

\* The response send_response leaves behind: it takes &self and renders a clone.
ResponseAfterSend(res) == res

\* send_response, up to the first call of the sink's write:
\* response_string = String::from(self.clone()); write!(..) enters write_all.
SendResponse ==
    /\ origin # "none"
    /\ pc = "idle"
    /\ sends < MaxSends
    /\ sends' = sends + 1
    /\ before' = sink
    /\ buf' = from(response)
    /\ response' = ResponseAfterSend(response)
    /\ result' = Pending
    /\ sink_err' = "-"
    /\ wrote_after_err' = FALSE
    /\ last_write' = "-"
    /\ pc' = "write_all"
    /\ UNCHANGED <<origin, args, ret, sink>>

\* The sizes a write of a slice of n > 0 bytes may report as accepted.
Accepts(n) == {n, IF n < MaxChunk THEN n ELSE MaxChunk}

\* A slice advanced one byte too far: buf = &buf[n + 1..]
AdvanceOffByOne(b, n) == SubSeq(b, n + 2, Len(b))

\* write_all's  Ok(n) => buf = &buf[n..]
Advance(b, n) == SubSeq(b, n + 1, Len(b))

\* write(buf) returns Ok(n), n > 0: the sink took the first n bytes.
WriteOk ==
    /\ pc = "write_all"
    /\ \E n \in Accepts(Len(buf)) :
        /\ sink' = sink \o SubSeq(buf, 1, n)
        /\ buf' = Advance(buf, n)
    /\ wrote_after_err' = (wrote_after_err \/ sink_err # "-")
    /\ IF buf' = <<>>
       THEN pc' = "idle" /\ result' = Ok
       ELSE pc' = "write_all" /\ result' = result
    /\ last_write' = "Ok"
    /\ UNCHANGED <<origin, args, response, ret, before, sink_err, sends>>

\* write(buf) returns Ok(0): write_all returns its own WriteZero error.
WriteZero ==
    /\ pc = "write_all"
    /\ last_write' = "Zero"
    /\ wrote_after_err' = (wrote_after_err \/ sink_err # "-")
    /\ pc' = "idle"
    /\ result' = Err("WriteZero")
    /\ UNCHANGED <<origin, args, response, ret, sink, before, buf, sink_err, sends>>

\* A write loop that calls write again after every error.
OnWriteErrRetryAll(kind) ==
    pc' = "write_all" /\ result' = result

\* What write_all does with Err(e) from write:
\* Err(ref e) if e.is_interrupted() => {}   (the loop calls write again)
\* Err(e) => return Err(e)
OnWriteErr(kind) ==
    IF kind = "Interrupted"
    THEN pc' = "write_all" /\ result' = result
    ELSE pc' = "idle" /\ result' = Err(kind)

\* write(buf) returns Err(kind): the sink took no byte.
WriteErr ==
    /\ pc = "write_all"
    /\ \E kind \in ErrorKinds :
        /\ sink_err' = kind
        /\ last_write' = kind
        /\ OnWriteErr(kind)
    /\ wrote_after_err' = (wrote_after_err \/ sink_err # "-")
    /\ UNCHANGED <<origin, args, response, ret, sink, before, buf, sends>>

Next ==
    \/ New
    \/ Default
    \/ Into
    \/ BodyCall
    \/ SendResponse
    \/ WriteOk
    \/ WriteZero
    \/ WriteErr

Spec == Init /\ [][Next]_vars

----------------------------------------------------------------------------
(* Reading a rendered message back: used by the properties below only. *)

IsPrefix(p, s) == Len(p) <= Len(s) /\ SubSeq(s, 1, Len(p)) = p
IsSuffix(p, s) == Len(p) <= Len(s) /\ SubSeq(s, Len(s) - Len(p) + 1, Len(s)) = p

\* The positions at which pat occurs in s.
Occurrences(pat, s) ==
    {i \in 1..(Len(s) - Len(pat) + 1) : SubSeq(s, i, i + Len(pat) - 1) = pat}

Contains(s, pat) == Occurrences(pat, s) # {}

\* The first (last) position at which pat occurs in s; 0 when it does not.
IndexOf(pat, s) ==
    LET occ == Occurrences(pat, s)
    IN IF occ = {} THEN 0 ELSE CHOOSE i \in occ : \A j \in occ : i <= j
LastIndexOf(pat, s) ==
    LET occ == Occurrences(pat, s)
    IN IF occ = {} THEN 0 ELSE CHOOSE i \in occ : \A j \in occ : i >= j

DigitValue(b) ==
    CASE b = "0" -> 0 [] b = "1" -> 1 [] b = "2" -> 2 [] b = "3" -> 3
      [] b = "4" -> 4 [] b = "5" -> 5 [] b = "6" -> 6 [] b = "7" -> 7
      [] b = "8" -> 8 [] b = "9" -> 9 [] OTHER -> -1

RECURSIVE ParseDecimal(_)
\* The number a canonical decimal numeral denotes (no sign, no leading zero
\* but for "0" itself); -1 for any other byte sequence.
ParseDecimal(d) ==
    IF d = <<>> \/ (Len(d) > 1 /\ d[1] = "0") THEN -1
    ELSE LET last == DigitValue(d[Len(d)])
             init == IF Len(d) = 1 THEN 0 ELSE ParseDecimal(SubSeq(d, 1, Len(d) - 1))
         IN IF last < 0 \/ init < 0 THEN -1 ELSE 10 * init + last

CL_NAME == Bytes("Content-Length: ")

\* The bytes of s after its last CRLF (all of s when it has none).
LastLine(s) ==
    LET i == LastIndexOf(CRLF, s)
    IN IF i = 0 THEN s ELSE SubSeq(s, i + 2, Len(s))

\* The number a line "Content-Length: <numeral>" carries; -1 for any other line.
ContentLengthOf(line) ==
    IF IsPrefix(CL_NAME, line)
    THEN ParseDecimal(SubSeq(line, Len(CL_NAME) + 1, Len(line)))
    ELSE -1

\* out is  head ++ "Content-Length: <numeral of n>" ++ CRLF CRLF ++ b.
FramedAs(out, head, b, n) ==
    LET tail == CRLF \o CRLF \o b
    IN /\ IsPrefix(head \o CL_NAME, out)
       /\ IsSuffix(tail, out)
       /\ Len(out) > Len(head) + Len(CL_NAME) + Len(tail)
       /\ ParseDecimal(SubSeq(out, Len(head) + Len(CL_NAME) + 1,
                              Len(out) - Len(tail))) = n

\* The body bytes given to new (none given: no bytes).
ArgBody == IF args.body.some THEN args.body.val ELSE <<>>

\* String::from has been applied to a response made by new.
Rendered == origin = "new" /\ ret.fn = "from"

\* A send_response call has returned.
Returned == pc = "idle" /\ sends > 0

HasCRorLF(s) == \E i \in 1..Len(s) : s[i] \in {"\r", "\n"}

----------------------------------------------------------------------------
(* The properties. *)

\* The header block of a rendering of a response made by new: what precedes
\* the blank line and the body given to new.
HeadOf(out) == SubSeq(out, 1, Len(out) - Len(ArgBody) - 4)

\* The status line of the response, with its CRLF.
StatusLine ==
    Bytes("HTTP/1.1 ") \o args.status_code \o Bytes(" ") \o response.status_text \o CRLF

\* C1: in the rendering of a response made by new, the last line of the header
\* block, the one rendering adds, is "Content-Length: <n>" with n the decimal
\* byte length of the body given to new (0 when none was given), and the
\* blank line and that body follow it.
C1_ContentLengthIsByteLength ==
    Rendered =>
        /\ IsSuffix(CRLF \o CRLF \o ArgBody, ret.val)
        /\ ContentLengthOf(LastLine(HeadOf(ret.val))) = Len(ArgBody)

\* A body of 2 characters in 3 bytes has been rendered with Content-Length: 3.
C1_Witness ==
    /\ Rendered
    /\ args.body = Some(<<"h", "xC3", "xA9">>)
    /\ LastLine(HeadOf(ret.val)) = Bytes("Content-Length: 3")

\* C2: with no headers given to new, the rendering is exactly the status
\* line, "Content-Type: text/html", "Content-Length: <n>", a blank line and
\* the body (nothing when none was given): no other header line.
C2_DefaultHeaderOnly ==
    (Rendered /\ ~args.headers.some) =>
        FramedAs(ret.val,
                 StatusLine \o Bytes("Content-Type: text/html") \o CRLF,
                 ArgBody, Len(ArgBody))

\* new("200", None, None) has been rendered, to the text the tests expect.
C2_Witness ==
    /\ Rendered
    /\ ~args.headers.some
    /\ ~args.body.some
    /\ ret.val = Bytes("HTTP/1.1 200 OK\r\nContent-Type: text/html\r\nContent-Length: 0\r\n\r\n")

\* The orders in which n lines can be written.
Orders(n) ==
    {p \in [1..n -> 1..n] : \A i, j \in 1..n : p[i] = p[j] => i = j}

RECURSIVE LinesFrom(_, _, _)
\* The lines "name: value" CRLF of the entries p[i], p[i+1], ...
LinesFrom(entries, p, i) ==
    IF i > Len(entries) THEN <<>>
    ELSE entries[p[i]][1] \o Bytes(": ") \o entries[p[i]][2] \o CRLF
         \o LinesFrom(entries, p, i + 1)

\* C3: with a headers mapping given to new (an empty one included), the
\* rendering is the status line, then one line "name: value" per given
\* entry in some order, then the Content-Length line, the blank line and
\* the body: no default Content-Type line is added.
C3_SuppliedHeadersOnly ==
    (Rendered /\ args.headers.some) =>
        \E p \in Orders(Len(args.headers.val)) :
            FramedAs(ret.val,
                     StatusLine \o LinesFrom(args.headers.val, p, 1),
                     ArgBody, Len(ArgBody))

\* A response made with two headers has been rendered, both lines present.
C3_Witness ==
    /\ Rendered
    /\ args.headers = Some(<<CC_NOCACHE, CT_JSON>>)
    /\ Contains(ret.val, Bytes("\r\nCache-Control: no-cache\r\nContent-Type: application/json\r\nContent-Length: "))

\* C4: new stores status_code as given and sets status_text by exact match:
\* "200" OK, "400" Bad Request, "404" Not Found, "500" Internal Server
\* Error, anything else Not Found; and new can be called on every input.
C4_StatusText ==
    /\ origin = "none" => ENABLED New
    /\ origin = "new" =>
        /\ response.status_code = args.status_code
        /\ response.version = Bytes("HTTP/1.1")
        /\ response.status_text =
              IF args.status_code = Bytes("200") THEN Bytes("OK")
              ELSE IF args.status_code = Bytes("400") THEN Bytes("Bad Request")
              ELSE IF args.status_code = Bytes("404") THEN Bytes("Not Found")
              ELSE IF args.status_code = Bytes("500") THEN Bytes("Internal Server Error")
              ELSE Bytes("Not Found")

\* new was given a recognised code followed by a space and chose Not Found.
C4_Witness ==
    /\ origin = "new"
    /\ args.status_code = Bytes("200 ")
    /\ response.status_text = Bytes("Not Found")

C6_AnyErrorReturnedNoRetry ==
    (Returned /\ sink_err # "-") =>
        /\ result = Err(sink_err)
        /\ ~wrote_after_err
        /\ sink \o buf = before \o from(response)

\* C6, amended: a write error of a kind other than Interrupted ends the call
\* at once: send_response returns that error, it was the last write of the
\* call, and the bytes taken before it are in the sink, the rest unwritten.
\* After a write that returned Interrupted the call goes on (write_all calls
\* write again on the same slice).
C6_FatalErrorReturnedNoRetry ==
    /\ sink_err \notin {"-", "Interrupted"} =>
        /\ pc = "idle"
        /\ result = Err(sink_err)
        /\ last_write = sink_err
        /\ buf # <<>>
        /\ sink \o buf = before \o from(response)
    /\ last_write = "Interrupted" =>
        /\ pc = "write_all"
        /\ result = Pending
        /\ sink \o buf = before \o from(response)

\* A send has failed with BrokenPipe after the sink took part of the message.
C6_Witness ==
    /\ Returned
    /\ result = Err("BrokenPipe")
    /\ Len(sink) > Len(before)

\* The response of the fourth scenario has been rendered.
C7_Case ==
    /\ Rendered
    /\ args.status_code = Bytes("200")
    /\ args.headers.some
    /\ {args.headers.val[i] : i \in 1..Len(args.headers.val)} = {CT_JSON, CC_NOCACHE}
    /\ args.body = Some(Bytes("{\"ok\":true}"))

\* The rendering holds both given header lines and no text/html.
C7_HeaderLines ==
    /\ Contains(ret.val, CRLF \o Bytes("Content-Type: application/json") \o CRLF)
    /\ Contains(ret.val, CRLF \o Bytes("Cache-Control: no-cache") \o CRLF)
    /\ ~Contains(ret.val, Bytes("text/html"))

\* C7, as claimed: the rendering of new("200", {Content-Type:
\* application/json, Cache-Control: no-cache}, {"ok":true}) holds both header
\* lines and the line Content-Length: 12, and no text/html.
C7_ScenarioLength12 ==
    C7_Case =>
        /\ C7_HeaderLines
        /\ Contains(ret.val, CRLF \o Bytes("Content-Length: 12") \o CRLF)

\* C7, amended: the same rendering holds both header lines and the line
\* Content-Length: 11 (the body {"ok":true} is 11 bytes), and no text/html.
C7_ScenarioLength11 ==
    C7_Case =>
        /\ C7_HeaderLines
        /\ Contains(ret.val, CRLF \o Bytes("Content-Length: 11") \o CRLF)

\* The scenario's response has been rendered, Cache-Control iterated first.
C7_Witness ==
    /\ C7_Case
    /\ args.headers.val[1] = CC_NOCACHE

\* C8: every rendering of a response made by new has exactly one header line
\* named Content-Length, and its value is the byte length of the body: the
\* value is never one the caller gave.
C8_OneContentLength ==
    Rendered =>
        /\ Cardinality(Occurrences(CRLF \o Bytes("Content-Length:"), HeadOf(ret.val))) = 1
        /\ ContentLengthOf(LastLine(HeadOf(ret.val))) = Len(ArgBody)

\* C9: once made by new, the response never changes: no step (a send, its
\* writes whether they succeed or fail, body(), a rendering) changes a field,
\* it stays the value new returned, so it renders as it did right after new.
C9_Immutable ==
    [][origin = "new" =>
         /\ response' = response
         /\ response' = new(args.status_code, args.headers, args.body)]_vars

\* body() was called after two sends of a response made by new, the last failed.
C9_Witness ==
    /\ origin = "new"
    /\ Returned
    /\ sends = 2
    /\ result.state = "Err"
    /\ ret.fn = "body"
    /\ ret.val # <<>>

\* new was given a status code and headers free of CR and LF.
C10_Case ==
    /\ Rendered
    /\ ~HasCRorLF(args.status_code)
    /\ args.headers.some =>
         \A i \in 1..Len(args.headers.val) :
             /\ ~HasCRorLF(args.headers.val[i][1])
             /\ ~HasCRorLF(args.headers.val[i][2])

\* C10: when the status code and the header names and values hold no CR and
\* no LF, the first CRLF CRLF of the rendering ends the Content-Length line,
\* which is the last header line, and the bytes after it are exactly the
\* body, whatever the body holds.
C10_Framing ==
    C10_Case =>
        LET i == IndexOf(CRLF \o CRLF, ret.val)
        IN /\ i > 0
           /\ SubSeq(ret.val, i + 4, Len(ret.val)) = ArgBody
           /\ ContentLengthOf(LastLine(SubSeq(ret.val, 1, i - 1))) = Len(ArgBody)

\* A body that itself holds CRLF CRLF has been rendered under clean headers.
C10_Witness ==
    /\ C10_Case
    /\ args.body = Some(Bytes("a\r\n\r\nb"))
    /\ Cardinality(Occurrences(CRLF \o CRLF, ret.val)) = 2

====
